---- MODULE Spec2Model ----
(***************************************************************************)
(* ProjectFlow API (backend/server.py): users, projects and the tasks,     *)
(* time entries and milestones nested in a project document.               *)
(*                                                                         *)
(* The store is the two MongoDB collections db.users and db.projects.  A   *)
(* storage call (find_one, insert_one, find_one_and_update, update_one,    *)
(* delete_one) is atomic on one document; a handler that awaits two        *)
(* storage calls is two steps, and other requests may run between them.    *)
(* A handler's Python code between two awaits runs without interruption    *)
(* (one asyncio event loop), so it is part of the step of the storage call *)
(* that precedes it.                                                       *)
(*                                                                         *)
(* Fields no handler branches on and no analytics reads (task description, *)
(* priority, due_date, estimated_hours and created_at, time entry          *)
(* description and created_at, milestone description, user name and        *)
(* created_at) are left out of the documents; title stands for the         *)
(* free-text fields of a task.                                             *)
(***************************************************************************)
EXTENDS Integers, Sequences, FiniteSets, TLC

(* ------------------------------ bounds --------------------------------- *)

\* project ids (uuid4 values) generated in a run
MaxProjects == 1
\* task, time entry and milestone ids (uuid4 values) generated in a run
MaxElems == 3
\* user ids (uuid4 values) generated in a run
MaxUsers == 2
\* last value of the clock
MaxTime == 2

\* requests in flight at once
Clients == {"r1", "r2"}

(* --------------------------- optional values --------------------------- *)

\* Python's None, and a present value, of an Optional field
None == <<>>
Some(v) == <<v>>

(* ------------------------------- inputs -------------------------------- *)

\* the accounts of the project specifications (user ids)
Accounts == {1, 2}

Emails == {"a@x.io", "b@x.io"}
Passwords == {"pw1", "pw2"}

\* status strings a client may send: the three of the data model and the
\* empty string (TaskUpdate.status is any Optional[str])
TaskStatusInputs == {"todo", "in_progress", "done", ""}
\* the fields a client may send in the body of update_project
ProjectStatusInputs == {"completed"}
Names == {"n2"}
Descriptions == {"", "d1"}
Colors == {"#000000"}
Deadlines == {"2099-01-01"}

(* ------------------------------- state --------------------------------- *)

VARIABLES
    users,      \* db.users: the user documents, in insertion order
    projects,   \* db.projects: project id -> project document
    nextUid,    \* user ids generated so far, plus one
    nextPid,    \* project ids generated so far, plus one
    nextEid,    \* task / time entry / milestone ids generated so far, plus one
    now,        \* datetime.now(timezone.utc)
    cl,         \* per request slot: the handler awaiting its second storage call
    last        \* the response sent last: the request and its outcome

vars == <<users, projects, nextUid, nextPid, nextEid, now, cl, last>>

(* ------------------------------ responses ------------------------------ *)

OK == "200"
ProjectNotFound == "404 Project not found"
TaskNotFound == "404 Task not found"
MilestoneNotFound == "404 Milestone not found"
EmailRegistered == "400 Email already registered"
InvalidCredentials == "401 Invalid credentials"

(* ------------------------------ documents ------------------------------ *)

\* mutant: id: str = str(uuid.uuid4()), one default for every Task
TaskSharedId(id, title) ==
    [id |-> 0, title |-> title, status |-> "todo", completed_at |-> None,
     time_entries |-> <<>>]

\* Task(...) as create_task builds it: status "todo", no completed_at, no
\* time entries
Task(id, title) ==
    [id |-> id, title |-> title, status |-> "todo", completed_at |-> None,
     time_entries |-> <<>>]

TimeEntry(id, minutes, date) ==
    [id |-> id, duration_minutes |-> minutes, date |-> date]

Milestone(id, title, due_date) ==
    [id |-> id, title |-> title, due_date |-> due_date, completed |-> FALSE,
     completed_at |-> None]

\* Project(...) as create_project builds it
Project(owner, name, description, color, deadline, t) ==
    [owner_id |-> owner, name |-> name, description |-> description,
     color |-> color, status |-> "active", deadline |-> deadline,
     tasks |-> <<>>, milestones |-> <<>>, created_at |-> t, updated_at |-> t]

\* the request bodies TaskUpdate and ProjectUpdate: every field Optional
TaskUpdate(title, status) == [title |-> title, status |-> status]

ProjectUpdate(name, description, color, deadline, status) ==
    [name |-> name, description |-> description, color |-> color,
     deadline |-> deadline, status |-> status]

(* ------------------------------- helpers ------------------------------- *)

\* next((i for i, t in enumerate(seq) if t["id"] == id), None); 0 for None
IndexOf(seq, id) ==
    IF \E i \in 1..Len(seq) : seq[i].id = id
    THEN CHOOSE i \in 1..Len(seq) :
            seq[i].id = id /\ \A j \in 1..(i - 1) : seq[j].id # id
    ELSE 0

\* $pull {"id": id}: every element with that id is removed
Pull(seq, id) == SelectSeq(seq, LAMBDA e : e.id # id)

\* mutant: the filter without owner_id
OwnedById(u, pid) == pid \in DOMAIN projects

\* the filter {"id": project_id, "owner_id": current_user["id"]}
Owned(u, pid) == pid \in DOMAIN projects /\ projects[pid].owner_id = u

\* find({"owner_id": current_user["id"]}): the ids of the documents returned
OwnedProjects(u) == {pid \in DOMAIN projects : projects[pid].owner_id = u}

\* get_current_user: the token's subject must be a stored user
Authenticated(u) == \E i \in 1..Len(users) : users[i].id = u

\* a request slot is free, or holds a handler between its find_one and its
\* update_one / insert_one with the handler's locals: the route, the caller,
\* the project id, the list (val) and the timestamp (at) to write, and the
\* body to return (ret)
Free(c) == cl[c].pc = "idle"

Slot(pc, op, u, pid, val, at, ret) ==
    [pc |-> pc, op |-> op, user |-> u, pid |-> pid, val |-> val, at |-> at,
     ret |-> ret]

Idle == Slot("idle", "", 0, 0, <<>>, 0, None)

\* a response: the request it answers (route, caller, project id of the
\* path), its status and detail, and its body
Response(op, u, pid, resp, ret) ==
    [op |-> op, user |-> u, pid |-> pid, resp |-> resp, ret |-> ret]

\* the handler in slot c returns or raises: the slot is free again
Respond(c, op, u, pid, resp, ret) ==
    /\ cl' = [cl EXCEPT ![c] = Idle]
    /\ last' = Response(op, u, pid, resp, ret)

(* ---------------------------- auth helpers ----------------------------- *)

\* pwd_context.hash / pwd_context.verify: the hash is not the password, and
\* verifies exactly the password it was made from
get_password_hash(password) == <<"bcrypt", password>>

verify_password(plain, hashed) == hashed = get_password_hash(plain)

\* find_one({"email": email}): the first stored document with that email
FindByEmail(email) ==
    IF \E i \in 1..Len(users) : users[i].email = email
    THEN Some(users[CHOOSE i \in 1..Len(users) :
                    users[i].email = email
                    /\ \A j \in 1..(i - 1) : users[j].email # email])
    ELSE None

(* ----------------------------- auth routes ----------------------------- *)

\* register up to its insert_one: the lookup by email, and the user document
\* built from a fresh id and the password's hash
register_find(c, email, password) ==
    /\ Free(c)
    /\ IF FindByEmail(email) # None
       THEN /\ Respond(c, "register", 0, 0, EmailRegistered, None)
            /\ UNCHANGED nextUid
       ELSE /\ nextUid <= MaxUsers
            /\ cl' = [cl EXCEPT ![c] =
                        Slot("write", "register", nextUid, 0,
                             <<[id |-> nextUid, email |-> email,
                                password |-> get_password_hash(password)]>>,
                             0, None)]
            /\ nextUid' = nextUid + 1
            /\ UNCHANGED last
    /\ UNCHANGED <<users, projects, nextPid, nextEid, now>>

\* register's insert_one and its response
register_insert(c) ==
    /\ cl[c].pc = "write" /\ cl[c].op = "register"
    /\ users' = Append(users, cl[c].val[1])
    /\ Respond(c, "register", cl[c].user, 0, OK, Some(cl[c].user))
    /\ UNCHANGED <<projects, nextUid, nextPid, nextEid, now>>

login(c, email, password) ==
    /\ Free(c)
    /\ LET user == FindByEmail(email) IN
        IF user = None \/ ~verify_password(password, user[1].password)
        THEN Respond(c, "login", 0, 0, InvalidCredentials, None)
        ELSE Respond(c, "login", user[1].id, 0, OK, Some(user[1].id))
    /\ UNCHANGED <<users, projects, nextUid, nextPid, nextEid, now>>

(* ---------------------------- project routes --------------------------- *)

\* the response's body is the ids of the documents returned
get_projects(c, u) ==
    /\ Free(c) /\ Authenticated(u)
    /\ Respond(c, "get_projects", u, 0, OK, Some(OwnedProjects(u)))
    /\ UNCHANGED <<users, projects, nextUid, nextPid, nextEid, now>>

create_project(c, u, name, description, color, deadline) ==
    /\ Free(c) /\ Authenticated(u)
    /\ nextPid <= MaxProjects
    /\ projects' = projects @@
            (nextPid :> Project(u, name, description, color, deadline, now))
    /\ nextPid' = nextPid + 1
    /\ Respond(c, "create_project", u, nextPid, OK, Some(nextPid))
    /\ UNCHANGED <<users, nextUid, nextEid, now>>

\* the response's body is the id of the document returned
get_project(c, u, pid) ==
    /\ Free(c) /\ Authenticated(u)
    /\ IF Owned(u, pid)
       THEN Respond(c, "get_project", u, pid, OK, Some(pid))
       ELSE Respond(c, "get_project", u, pid, ProjectNotFound, None)
    /\ UNCHANGED <<users, projects, nextUid, nextPid, nextEid, now>>

\* mutant: update_dict keeps the fields "if v" instead of "if v is not None"
SetProjectFieldsTruthy(doc, d, t) ==
    [doc EXCEPT
        !.name = IF d.name # None /\ d.name # Some("") THEN d.name[1] ELSE @,
        !.description = IF d.description # None /\ d.description # Some("")
                        THEN d.description[1] ELSE @,
        !.color = IF d.color # None /\ d.color # Some("") THEN d.color[1] ELSE @,
        !.deadline = IF d.deadline # None /\ d.deadline # Some("")
                     THEN d.deadline ELSE @,
        !.status = IF d.status # None /\ d.status # Some("")
                   THEN d.status[1] ELSE @,
        !.updated_at = t]

\* {"$set": update_dict}: the non-None fields of the body, and updated_at
SetProjectFields(doc, d, t) ==
    [doc EXCEPT
        !.name = IF d.name # None THEN d.name[1] ELSE @,
        !.description = IF d.description # None THEN d.description[1] ELSE @,
        !.color = IF d.color # None THEN d.color[1] ELSE @,
        !.deadline = IF d.deadline # None THEN d.deadline ELSE @,
        !.status = IF d.status # None THEN d.status[1] ELSE @,
        !.updated_at = t]

update_project(c, u, pid, project_data) ==
    /\ Free(c) /\ Authenticated(u)
    /\ IF Owned(u, pid)
       THEN /\ projects' = [projects EXCEPT
                    ![pid] = SetProjectFields(@, project_data, now)]
            /\ Respond(c, "update_project", u, pid, OK, Some(pid))
       ELSE /\ Respond(c, "update_project", u, pid, ProjectNotFound, None)
            /\ UNCHANGED projects
    /\ UNCHANGED <<users, nextUid, nextPid, nextEid, now>>

delete_project(c, u, pid) ==
    /\ Free(c) /\ Authenticated(u)
    /\ IF Owned(u, pid)
       THEN /\ projects' = [p \in DOMAIN projects \ {pid} |-> projects[p]]
            /\ Respond(c, "delete_project", u, pid, OK, None)
       ELSE /\ Respond(c, "delete_project", u, pid, ProjectNotFound, None)
            /\ UNCHANGED projects
    /\ UNCHANGED <<users, nextUid, nextPid, nextEid, now>>

(* --------------------------- nested write-back ------------------------- *)

\* mutant: the write-back replaces the document by one rebuilt around the list
SetTasksRebuilt(store, pid, tasks, t) ==
    IF pid \in DOMAIN store
    THEN [store EXCEPT
            ![pid] = [Project(@.owner_id, "n1", "", "#4F46E5", None,
                              @.created_at)
                        EXCEPT !.tasks = tasks, !.milestones = store[pid].milestones,
                               !.updated_at = t]]
    ELSE store

\* mutant: update_one(..., upsert=True), a filter that matches nothing
\* inserts a document
SetTasksUpsert(store, pid, tasks, t) ==
    IF pid \in DOMAIN store
    THEN [store EXCEPT ![pid] = [@ EXCEPT !.tasks = tasks, !.updated_at = t]]
    ELSE store @@ (pid :> [Project(0, "", "", "", None, t) EXCEPT
                            !.tasks = tasks])

\* update_one({"id": project_id}, {"$set": {"tasks": tasks, "updated_at": t}}):
\* the filter has no owner_id, and a filter that matches nothing is no error
SetTasks(store, pid, tasks, t) ==
    IF pid \in DOMAIN store
    THEN [store EXCEPT ![pid] = [@ EXCEPT !.tasks = tasks, !.updated_at = t]]
    ELSE store

\* mutant: {"$set": {"milestones": milestones}} alone
SetMilestonesOnly(store, pid, milestones, t) ==
    IF pid \in DOMAIN store
    THEN [store EXCEPT ![pid] = [@ EXCEPT !.milestones = milestones]]
    ELSE store

\* mutant: {"$set": {"milestones": ..., "tasks": [], "updated_at": t}}
SetMilestonesWhole(store, pid, milestones, t) ==
    IF pid \in DOMAIN store
    THEN [store EXCEPT
            ![pid] = [@ EXCEPT !.milestones = milestones, !.tasks = <<>>,
                               !.updated_at = t]]
    ELSE store

\* update_one({"id": project_id}, {"$set": {"milestones": ..., "updated_at": t}})
SetMilestones(store, pid, milestones, t) ==
    IF pid \in DOMAIN store
    THEN [store EXCEPT
            ![pid] = [@ EXCEPT !.milestones = milestones, !.updated_at = t]]
    ELSE store

\* mutant: {"$set": {"tasks": [task], "updated_at": t}}
PushTaskReplace(doc, task, t) ==
    [doc EXCEPT !.tasks = <<task>>, !.updated_at = t]

\* find_one_and_update(..., {"$push": {"tasks": task}, "$set": {"updated_at": t}})
PushTask(doc, task, t) ==
    [doc EXCEPT !.tasks = Append(@, task), !.updated_at = t]

\* find_one_and_update(..., {"$pull": {"tasks": {"id": id}}, "$set": {...}})
PullTask(doc, id, t) ==
    [doc EXCEPT !.tasks = Pull(@, id), !.updated_at = t]

PushMilestone(doc, milestone, t) ==
    [doc EXCEPT !.milestones = Append(@, milestone), !.updated_at = t]

PullMilestone(doc, id, t) ==
    [doc EXCEPT !.milestones = Pull(@, id), !.updated_at = t]

\* a handler after its find_one, holding the list it will write back
Pending(c, op, u, pid, val, ret) ==
    /\ cl' = [cl EXCEPT ![c] = Slot("write", op, u, pid, val, now, ret)]
    /\ UNCHANGED last

(* ----------------------------- task routes ----------------------------- *)

create_task(c, u, pid, title) ==
    /\ Free(c) /\ Authenticated(u)
    /\ IF Owned(u, pid)
       THEN /\ nextEid <= MaxElems
            /\ projects' = [projects EXCEPT
                    ![pid] = PushTask(@, Task(nextEid, title), now)]
            /\ nextEid' = nextEid + 1
            /\ Respond(c, "create_task", u, pid, OK,
                       Some(Task(nextEid, title)))
       ELSE /\ Respond(c, "create_task", u, pid, ProjectNotFound, None)
            /\ UNCHANGED <<projects, nextEid>>
    /\ UNCHANGED <<users, nextUid, nextPid, now>>

\* update_dict of update_task, applied: the body's non-None fields, and
\* completed_at by the status rule (Python truth of a string: not empty)
MergeTask(task, d, t) ==
    [task EXCEPT
        !.title = IF d.title # None THEN d.title[1] ELSE @,
        !.status = IF d.status # None THEN d.status[1] ELSE @,
        !.completed_at =
            IF d.status = Some("done") /\ task.status # "done" THEN Some(t)
            ELSE IF d.status # None /\ d.status[1] # "" /\ d.status[1] # "done"
                 THEN None
                 ELSE @]

\* update_task up to its update_one
\* mutant: updated_at is refreshed before the task is looked up
update_task_find_touch(c, u, pid, tid, task_data) ==
    /\ Free(c) /\ Authenticated(u)
    /\ IF ~Owned(u, pid)
       THEN /\ Respond(c, "update_task", u, pid, ProjectNotFound, None)
            /\ UNCHANGED projects
       ELSE LET tasks == projects[pid].tasks
                i == IndexOf(tasks, tid)
            IN  /\ projects' = [projects EXCEPT ![pid].updated_at = now]
                /\ IF i = 0
                   THEN Respond(c, "update_task", u, pid, TaskNotFound, None)
                   ELSE LET merged == MergeTask(tasks[i], task_data, now) IN
                        Pending(c, "update_task", u, pid,
                                [tasks EXCEPT ![i] = merged], Some(merged))
    /\ UNCHANGED <<users, nextUid, nextPid, nextEid, now>>

update_task_find(c, u, pid, tid, task_data) ==
    /\ Free(c) /\ Authenticated(u)
    /\ IF ~Owned(u, pid)
       THEN Respond(c, "update_task", u, pid, ProjectNotFound, None)
       ELSE LET tasks == projects[pid].tasks
                i == IndexOf(tasks, tid)
            IN  IF i = 0
                THEN Respond(c, "update_task", u, pid, TaskNotFound, None)
                ELSE LET merged == MergeTask(tasks[i], task_data, now) IN
                     Pending(c, "update_task", u, pid,
                             [tasks EXCEPT ![i] = merged], Some(merged))
    /\ UNCHANGED <<users, projects, nextUid, nextPid, nextEid, now>>

\* update_task's update_one and its response
update_task_write(c) ==
    /\ cl[c].pc = "write" /\ cl[c].op = "update_task"
    /\ projects' = SetTasks(projects, cl[c].pid, cl[c].val, cl[c].at)
    /\ Respond(c, "update_task", cl[c].user, cl[c].pid, OK, cl[c].ret)
    /\ UNCHANGED <<users, nextUid, nextPid, nextEid, now>>

delete_task(c, u, pid, tid) ==
    /\ Free(c) /\ Authenticated(u)
    /\ IF Owned(u, pid)
       THEN /\ projects' = [projects EXCEPT ![pid] = PullTask(@, tid, now)]
            /\ Respond(c, "delete_task", u, pid, OK, None)
       ELSE /\ Respond(c, "delete_task", u, pid, ProjectNotFound, None)
            /\ UNCHANGED projects
    /\ UNCHANGED <<users, nextUid, nextPid, nextEid, now>>

(* ------------------------- time tracking routes ------------------------ *)

\* add_time_entry up to its update_one
add_time_entry_find(c, u, pid, tid, minutes, date) ==
    /\ Free(c) /\ Authenticated(u)
    /\ IF ~Owned(u, pid)
       THEN /\ Respond(c, "add_time_entry", u, pid, ProjectNotFound, None)
            /\ UNCHANGED nextEid
       ELSE LET tasks == projects[pid].tasks
                i == IndexOf(tasks, tid)
                time_entry == TimeEntry(nextEid, minutes, date)
            IN  IF i = 0
                THEN /\ Respond(c, "add_time_entry", u, pid, TaskNotFound,
                                None)
                     /\ UNCHANGED nextEid
                ELSE /\ nextEid <= MaxElems
                     /\ Pending(c, "add_time_entry", u, pid,
                                [tasks EXCEPT ![i].time_entries =
                                    Append(@, time_entry)],
                                Some(time_entry))
                     /\ nextEid' = nextEid + 1
    /\ UNCHANGED <<users, projects, nextUid, nextPid, now>>

add_time_entry_write(c) ==
    /\ cl[c].pc = "write" /\ cl[c].op = "add_time_entry"
    /\ projects' = SetTasks(projects, cl[c].pid, cl[c].val, cl[c].at)
    /\ Respond(c, "add_time_entry", cl[c].user, cl[c].pid, OK,
               cl[c].ret)
    /\ UNCHANGED <<users, nextUid, nextPid, nextEid, now>>

\* delete_time_entry up to its update_one
delete_time_entry_find(c, u, pid, tid, time_id) ==
    /\ Free(c) /\ Authenticated(u)
    /\ IF ~Owned(u, pid)
       THEN Respond(c, "delete_time_entry", u, pid, ProjectNotFound, None)
       ELSE LET tasks == projects[pid].tasks
                i == IndexOf(tasks, tid)
            IN  IF i = 0
                THEN Respond(c, "delete_time_entry", u, pid, TaskNotFound,
                             None)
                ELSE Pending(c, "delete_time_entry", u, pid,
                             [tasks EXCEPT ![i].time_entries = Pull(@, time_id)],
                             None)
    /\ UNCHANGED <<users, projects, nextUid, nextPid, nextEid, now>>

delete_time_entry_write(c) ==
    /\ cl[c].pc = "write" /\ cl[c].op = "delete_time_entry"
    /\ projects' = SetTasks(projects, cl[c].pid, cl[c].val, cl[c].at)
    /\ Respond(c, "delete_time_entry", cl[c].user, cl[c].pid, OK,
               None)
    /\ UNCHANGED <<users, nextUid, nextPid, nextEid, now>>

(* --------------------------- milestone routes -------------------------- *)

create_milestone(c, u, pid, title, due_date) ==
    /\ Free(c) /\ Authenticated(u)
    /\ IF Owned(u, pid)
       THEN /\ nextEid <= MaxElems
            /\ projects' = [projects EXCEPT
                    ![pid] = PushMilestone(@, Milestone(nextEid, title, due_date),
                                           now)]
            /\ nextEid' = nextEid + 1
            /\ Respond(c, "create_milestone", u, pid, OK,
                       Some(Milestone(nextEid, title, due_date)))
       ELSE /\ Respond(c, "create_milestone", u, pid, ProjectNotFound, None)
            /\ UNCHANGED <<projects, nextEid>>
    /\ UNCHANGED <<users, nextUid, nextPid, now>>

\* mutant: completed_at is kept when the milestone was already completed
ToggleMilestoneKeep(m, completed, t) ==
    [m EXCEPT !.completed = completed,
              !.completed_at = IF completed
                               THEN (IF m.completed THEN @ ELSE Some(t))
                               ELSE None]

\* the completion toggle of update_milestone
ToggleMilestone(m, completed, t) ==
    [m EXCEPT !.completed = completed,
              !.completed_at = IF completed THEN Some(t) ELSE None]

\* update_milestone up to its update_one
update_milestone_find(c, u, pid, mid, completed) ==
    /\ Free(c) /\ Authenticated(u)
    /\ IF ~Owned(u, pid)
       THEN Respond(c, "update_milestone", u, pid, ProjectNotFound, None)
       ELSE LET milestones == projects[pid].milestones
                i == IndexOf(milestones, mid)
            IN  IF i = 0
                THEN Respond(c, "update_milestone", u, pid,
                             MilestoneNotFound, None)
                ELSE LET m == ToggleMilestone(milestones[i], completed, now) IN
                     Pending(c, "update_milestone", u, pid,
                             [milestones EXCEPT ![i] = m], Some(m))
    /\ UNCHANGED <<users, projects, nextUid, nextPid, nextEid, now>>

update_milestone_write(c) ==
    /\ cl[c].pc = "write" /\ cl[c].op = "update_milestone"
    /\ projects' = SetMilestones(projects, cl[c].pid, cl[c].val, cl[c].at)
    /\ Respond(c, "update_milestone", cl[c].user, cl[c].pid, OK,
               cl[c].ret)
    /\ UNCHANGED <<users, nextUid, nextPid, nextEid, now>>

\* mutant: an id that is not in the list is "Milestone not found"
delete_milestone_strict(c, u, pid, mid) ==
    /\ Free(c) /\ Authenticated(u)
    /\ IF Owned(u, pid)
       THEN IF IndexOf(projects[pid].milestones, mid) = 0
            THEN /\ Respond(c, "delete_milestone", u, pid, MilestoneNotFound,
                            None)
                 /\ UNCHANGED projects
            ELSE /\ projects' = [projects EXCEPT
                        ![pid] = PullMilestone(@, mid, now)]
                 /\ Respond(c, "delete_milestone", u, pid, OK, None)
       ELSE /\ Respond(c, "delete_milestone", u, pid, ProjectNotFound, None)
            /\ UNCHANGED projects
    /\ UNCHANGED <<users, nextUid, nextPid, nextEid, now>>

delete_milestone(c, u, pid, mid) ==
    /\ Free(c) /\ Authenticated(u)
    /\ IF Owned(u, pid)
       THEN /\ projects' = [projects EXCEPT ![pid] = PullMilestone(@, mid, now)]
            /\ Respond(c, "delete_milestone", u, pid, OK, None)
       ELSE /\ Respond(c, "delete_milestone", u, pid, ProjectNotFound, None)
            /\ UNCHANGED projects
    /\ UNCHANGED <<users, nextUid, nextPid, nextEid, now>>

(* --------------------------- analytics routes -------------------------- *)

\* sum(...) of a list of numbers
RECURSIVE Sum(_)
Sum(seq) == IF seq = <<>> THEN 0 ELSE Head(seq) + Sum(Tail(seq))

\* sum(g[p] for p in S), g a number per document id
RECURSIVE SumOver(_, _)
SumOver(S, g) ==
    IF S = {} THEN 0
    ELSE LET x == CHOOSE y \in S : TRUE IN g[x] + SumOver(S \ {x}, g)

\* mutant: sum(1 for t in tasks)
CountStatusAll(tasks, status) == Len(tasks)

\* sum(1 for t in tasks if t.get("status") == status)
CountStatus(tasks, status) ==
    Cardinality({i \in 1..Len(tasks) : tasks[i].status = status})

\* sum(1 for m in milestones if m.get("completed"))
CountCompleted(milestones) ==
    Cardinality({i \in 1..Len(milestones) : milestones[i].completed})

\* the minutes of every time entry of every task of a document
ProjectMinutes(doc) ==
    Sum([i \in 1..Len(doc.tasks) |->
            Sum([k \in 1..Len(doc.tasks[i].time_entries) |->
                    doc.tasks[i].time_entries[k].duration_minutes])])

\* The date strings of the model, in the order of Python's str comparison
\* (code points, left to right).
DateStrings ==
    <<"", "2020-01-01T00:00:00Z", "2025-01-01T02:00:00Z", "2030-01-01",
      "2030-01-01T05:00:00+00:00", "2030-01-01T10:00:00+10:00", "2099-01-01",
      "soon">>

\* the place of a date string in that order: a < b as Python strings iff
\* StrRank(a) < StrRank(b)
StrRank(s) == CHOOSE i \in 1..Len(DateStrings) : DateStrings[i] = s

\* datetime.fromisoformat(s.replace('Z', '+00:00')): whether it returns
\* (valid) or raises ValueError, whether the datetime has a tzinfo (aware:
\* the string carries an offset), and its instant in hours since
\* 2025-01-01T00:00:00Z, a string without offset being read as UTC.  The
\* clock value now = k is the instant k.
fromisoformat(s) ==
    CASE s = "2020-01-01T00:00:00Z" ->
            [valid |-> TRUE, aware |-> TRUE, instant |-> -43848]
      [] s = "2025-01-01T02:00:00Z" ->
            [valid |-> TRUE, aware |-> TRUE, instant |-> 2]
      [] s = "2030-01-01" ->
            [valid |-> TRUE, aware |-> FALSE, instant |-> 43824]
      [] s = "2030-01-01T05:00:00+00:00" ->
            [valid |-> TRUE, aware |-> TRUE, instant |-> 43829]
      [] s = "2030-01-01T10:00:00+10:00" ->
            [valid |-> TRUE, aware |-> TRUE, instant |-> 43824]
      [] s = "2099-01-01" ->
            [valid |-> TRUE, aware |-> FALSE, instant |-> 648672]
      [] OTHER -> [valid |-> FALSE, aware |-> FALSE, instant |-> 0]

\* the body of "try: d = fromisoformat(...); if d > now: append" with
\* "except: pass", now = datetime.now(timezone.utc) being aware: a string
\* that does not parse raises ValueError, a datetime without tzinfo raises
\* TypeError in the comparison, and both are swallowed
AppendsDeadline(s, t) ==
    LET d == fromisoformat(s)
    IN  d.valid /\ d.aware /\ d.instant > t

\* the items the loop appends for one document: the project's own deadline,
\* then its milestones in stored order
ProjectItem(pid) ==
    [type |-> "project", name |-> projects[pid].name,
     deadline |-> projects[pid].deadline[1], project_id |-> pid,
     project_name |-> None]

MilestoneItem(pid, m) ==
    [type |-> "milestone", name |-> m.title, deadline |-> m.due_date,
     project_id |-> pid, project_name |-> Some(projects[pid].name)]

RECURSIVE MilestoneItems(_, _, _)
MilestoneItems(pid, milestones, t) ==
    IF milestones = <<>> THEN <<>>
    ELSE LET m == Head(milestones)
         IN  (IF ~m.completed /\ m.due_date # ""
                 /\ AppendsDeadline(m.due_date, t)
              THEN <<MilestoneItem(pid, m)>> ELSE <<>>)
             \o MilestoneItems(pid, Tail(milestones), t)

DocumentItems(pid, t) ==
    (IF projects[pid].deadline # None /\ projects[pid].deadline[1] # ""
        /\ AppendsDeadline(projects[pid].deadline[1], t)
     THEN <<ProjectItem(pid)>> ELSE <<>>)
    \o MilestoneItems(pid, projects[pid].milestones, t)

\* the list of the loop over the documents find returned, in insertion order
\* (ascending id in the model)
RECURSIVE CollectDeadlines(_, _)
CollectDeadlines(S, t) ==
    IF S = {} THEN <<>>
    ELSE LET pid == CHOOSE x \in S : \A y \in S : x <= y
         IN  DocumentItems(pid, t) \o CollectDeadlines(S \ {pid}, t)

\* upcoming_deadlines.sort(key=lambda x: x["deadline"]): stable, ascending
\* by the raw string
InsertByDeadline(sorted, item) ==
    LET k == Cardinality({i \in 1..Len(sorted) :
                StrRank(sorted[i].deadline) <= StrRank(item.deadline)})
    IN  SubSeq(sorted, 1, k) \o <<item>> \o SubSeq(sorted, k + 1, Len(sorted))

RECURSIVE SortByDeadline(_)
SortByDeadline(items) ==
    IF items = <<>> THEN <<>>
    ELSE InsertByDeadline(SortByDeadline(SubSeq(items, 1, Len(items) - 1)),
                          items[Len(items)])

\* upcoming_deadlines[:5]
DeadlineCap == 5

UpcomingDeadlines(S, t) ==
    LET sorted == SortByDeadline(CollectDeadlines(S, t))
    IN  SubSeq(sorted, 1, IF Len(sorted) < DeadlineCap THEN Len(sorted)
                          ELSE DeadlineCap)

\* round((completed_tasks / total_tasks * 100) if total_tasks > 0 else 0, 1),
\* in tenths of a percent (1000 is 100.0): the nearest tenth.  The quotient
\* lies halfway between two tenths only from total_tasks = 16 on, where
\* round() decides by the float's binary value.
CompletionRate(completed_tasks, total_tasks) ==
    IF total_tasks > 0
    THEN (2000 * completed_tasks + total_tasks) \div (2 * total_tasks)
    ELSE 0

\* the counts of get_analytics_overview over the documents with the ids of S
Overview(S) ==
    LET total_tasks == SumOver(S, [p \in S |-> Len(projects[p].tasks)])
        completed_tasks ==
            SumOver(S, [p \in S |->
                CountStatus(projects[p].tasks, "done")])
        in_progress_tasks ==
            SumOver(S, [p \in S |->
                CountStatus(projects[p].tasks, "in_progress")])
    IN  [total_projects |-> Cardinality(S),
         active_projects |->
            Cardinality({p \in S : projects[p].status = "active"}),
         completed_projects |->
            Cardinality({p \in S : projects[p].status = "completed"}),
         total_tasks |-> total_tasks,
         completed_tasks |-> completed_tasks,
         in_progress_tasks |-> in_progress_tasks,
         todo_tasks |-> total_tasks - completed_tasks - in_progress_tasks,
         total_time_minutes |->
            SumOver(S, [p \in S |-> ProjectMinutes(projects[p])]),
         total_milestones |->
            SumOver(S, [p \in S |-> Len(projects[p].milestones)]),
         completed_milestones |->
            SumOver(S, [p \in S |->
                CountCompleted(projects[p].milestones)]),
         upcoming_deadlines |-> UpcomingDeadlines(S, now),
         task_completion_rate |-> CompletionRate(completed_tasks, total_tasks)]

\* the response's body is the counts of the overview
get_analytics_overview(c, u) ==
    /\ Free(c) /\ Authenticated(u)
    /\ Respond(c, "get_analytics_overview", u, 0, OK,
               Some(Overview(OwnedProjects(u))))
    /\ UNCHANGED <<users, projects, nextUid, nextPid, nextEid, now>>

(* ------------------------ time tracking analytics --------------------- *)

\* The calendar days of the model, in the order of Python's str comparison.
DayStrings ==
    <<"2023-12-31", "2024-01-01", "2024-01-02", "2024-01-03",
      "2024-01-04", "2024-01-05", "2024-01-06", "2024-01-07",
      "2024-01-08", "2024-01-09", "2024-01-10", "2024-01-11",
      "2024-01-12", "2024-01-13", "2024-01-14", "2024-01-15",
      "2024-01-16">>

\* a < b as Python strings iff DayRank(a) < DayRank(b)
DayRank(s) == CHOOSE i \in 1..Len(DayStrings) : DayStrings[i] = s

\* te.get("date", "")[:10]: the first 10 characters; a string of at most 10
\* characters is its own prefix
DatePrefix(s) ==
    CASE s = "2024-01-01T09:30:00" -> "2024-01-01"
      [] OTHER -> s

\* round(minutes / 60, 1), in tenths of an hour: the nearest tenth.  The
\* quotient lies halfway between two tenths only when minutes is 3 modulo 6,
\* where round() decides by the float's binary value.
HoursTenths(minutes) == (minutes + 3) \div 6

\* the time entries of a document in the order of the loops: task by task
RECURSIVE EntriesOfTasks(_)
EntriesOfTasks(tasks) ==
    IF tasks = <<>> THEN <<>>
    ELSE Head(tasks).time_entries \o EntriesOfTasks(Tail(tasks))

\* daily_times after the inner loops over entries: date -> minutes, an
\* entry whose date prefix is empty being skipped
RECURSIVE AddDaily(_, _)
AddDaily(daily_times, entries) ==
    IF entries = <<>> THEN daily_times
    ELSE LET te == Head(entries)
             date == DatePrefix(te.date)
             acc == IF date = "" THEN daily_times
                    ELSE IF date \in DOMAIN daily_times
                         THEN [daily_times EXCEPT
                                ![date] = @ + te.duration_minutes]
                         ELSE daily_times @@ (date :> te.duration_minutes)
         IN  AddDaily(acc, Tail(entries))

\* daily_times after the loop over the documents with the ids of S
RECURSIVE DailyTimes(_, _)
DailyTimes(daily_times, S) ==
    IF S = {} THEN daily_times
    ELSE LET pid == CHOOSE x \in S : \A y \in S : x <= y
         IN  DailyTimes(AddDaily(daily_times,
                                 EntriesOfTasks(projects[pid].tasks)),
                        S \ {pid})

\* sorted(daily_times.items()) as {"date", "hours"} items
RECURSIVE SortedDaily(_)
SortedDaily(daily_times) ==
    IF DOMAIN daily_times = {} THEN <<>>
    ELSE LET D == DOMAIN daily_times
             first == CHOOSE d \in D : \A e \in D : DayRank(d) <= DayRank(e)
         IN  <<[date |-> first, hours |-> HoursTenths(daily_times[first])]>>
             \o SortedDaily([d \in D \ {first} |-> daily_times[d]])

\* [-14:]
DailyCap == 14

\* mutant: [:14], the first 14 items
DailyListFirst(S) ==
    LET sorted == SortedDaily(DailyTimes(<<>>, S))
    IN  SubSeq(sorted, 1,
               IF Len(sorted) > DailyCap THEN DailyCap ELSE Len(sorted))

DailyList(S) ==
    LET sorted == SortedDaily(DailyTimes(<<>>, S))
    IN  SubSeq(sorted,
               IF Len(sorted) > DailyCap THEN Len(sorted) - DailyCap + 1 ELSE 1,
               Len(sorted))

\* project_times: one item per document with minutes, in the order of find
RECURSIVE ProjectTimes(_)
ProjectTimes(S) ==
    IF S = {} THEN <<>>
    ELSE LET pid == CHOOSE x \in S : \A y \in S : x <= y
             project_minutes == ProjectMinutes(projects[pid])
         IN  (IF project_minutes > 0
              THEN <<[name |-> projects[pid].name,
                      hours |-> HoursTenths(project_minutes),
                      color |-> projects[pid].color]>>
              ELSE <<>>)
             \o ProjectTimes(S \ {pid})

get_time_tracking_analytics(c, u) ==
    /\ Free(c) /\ Authenticated(u)
    /\ Respond(c, "get_time_tracking_analytics", u, 0, OK,
               Some([by_project |-> ProjectTimes(OwnedProjects(u)),
                     daily |-> DailyList(OwnedProjects(u))]))
    /\ UNCHANGED <<users, projects, nextUid, nextPid, nextEid, now>>

(* -------------------------------- clock -------------------------------- *)

Tick ==
    /\ now < MaxTime
    /\ now' = now + 1
    /\ UNCHANGED <<users, projects, nextUid, nextPid, nextEid, cl, last>>

(* ---------------------------- specifications --------------------------- *)

Option(S) == {None} \cup {Some(v) : v \in S}

Pids == 1..MaxProjects
Eids == 1..MaxElems

\* the store after two registrations: the accounts of Accounts
InitProjects ==
    /\ users = <<[id |-> 1, email |-> "a@x.io",
                  password |-> get_password_hash("pw1")],
                 [id |-> 2, email |-> "b@x.io",
                  password |-> get_password_hash("pw2")]>>
    /\ nextUid = 3
    /\ projects = <<>>
    /\ nextPid = 1
    /\ nextEid = 1
    /\ now = 1
    /\ cl = [c \in Clients |-> Idle]
    /\ last = Response("", 0, 0, "", None)

(* ------------------------- Spec: every route --------------------------- *)

\* the body {"name": "n2"} of update_project
Rename == ProjectUpdate(Some("n2"), None, None, None, None)

\* the handlers with one storage call, by either account on any project and
\* element id
OneCall(c, u) ==
    \/ get_projects(c, u)
    \/ get_analytics_overview(c, u)
    \/ create_project(c, u, "n1", "", "#4F46E5", None)
    \/ \E pid \in Pids :
        \/ get_project(c, u, pid)
        \/ update_project(c, u, pid, Rename)
        \/ delete_project(c, u, pid)
        \/ create_task(c, u, pid, "a")
        \/ create_milestone(c, u, pid, "a", "2030-01-01")
        \/ \E id \in Eids :
            \/ delete_task(c, u, pid, id)
            \/ delete_milestone(c, u, pid, id)

\* the handlers with two storage calls, up to the second
TwoCallFind(c, u) ==
    \E pid \in Pids, id \in Eids :
        \/ update_task_find(c, u, pid, id, TaskUpdate(Some("b"), None))
        \/ add_time_entry_find(c, u, pid, id, 30, "2024-01-01")
        \/ \E time_id \in Eids : delete_time_entry_find(c, u, pid, id, time_id)
        \/ \E completed \in BOOLEAN :
            update_milestone_find(c, u, pid, id, completed)

\* their second storage call
TwoCallWrite(c) ==
    \/ update_task_write(c)
    \/ add_time_entry_write(c)
    \/ delete_time_entry_write(c)
    \/ update_milestone_write(c)

\* Every project route by one account.  One handler at a time is between
\* its two storage calls (slot r1) while the one-call handlers run (slot r2)
\* and the clock runs.
Next ==
    \/ Tick
    \/ OneCall("r2", 1)
    \/ TwoCallFind("r1", 1)
    \/ TwoCallWrite("r1")

Spec == InitProjects /\ [][Next]_vars

(* ---------------------- SpecOwner: two accounts ------------------------ *)

\* Every project route by both accounts, one request at a time; the clock
\* stands still.
NextOwner ==
    \/ \E u \in Accounts : OneCall("r1", u)
    \/ \E u \in Accounts : TwoCallFind("r1", u)
    \/ TwoCallWrite("r1")

SpecOwner == InitProjects /\ [][NextOwner]_vars

(* ----------------------- SpecTask: task status ------------------------ *)

\* the bodies of update_task: any status string, or none
TaskUpdates == {TaskUpdate(None, st) : st \in Option(TaskStatusInputs)}

\* The task and time entry routes of one project by its owner, with every
\* status string: one handler at a time is between its two storage calls
\* (slot r1) while tasks are created and deleted (slot r2) and the clock runs.
NextTask ==
    \/ Tick
    \/ create_project("r2", 1, "n1", "", "#4F46E5", None)
    \/ \E pid \in Pids :
        \/ create_task("r2", 1, pid, "a")
        \/ \E id \in Eids :
            \/ delete_task("r2", 1, pid, id)
            \/ \E d \in TaskUpdates : update_task_find("r1", 1, pid, id, d)
            \/ add_time_entry_find("r1", 1, pid, id, 30, "2024-01-01")
            \/ \E time_id \in Eids :
                delete_time_entry_find("r1", 1, pid, id, time_id)
    \/ update_task_write("r1")
    \/ add_time_entry_write("r1")
    \/ delete_time_entry_write("r1")

SpecTask == InitProjects /\ [][NextTask]_vars

(* ------------------- SpecRace: two handlers in flight ------------------ *)

\* The appends and update_task of one project by its owner, from two clients:
\* both may be between their two storage calls at once.  Nothing is deleted
\* and the clock stands still.
NextRace ==
    \E c \in Clients :
        \/ create_project(c, 1, "n1", "", "#4F46E5", None)
        \/ \E pid \in Pids :
            \/ create_task(c, 1, pid, "a")
            \/ create_milestone(c, 1, pid, "a", "2030-01-01")
            \/ \E id \in Eids :
                \/ update_task_find(c, 1, pid, id, TaskUpdate(Some("b"), None))
                \/ add_time_entry_find(c, 1, pid, id, 30, "2024-01-01")
        \/ update_task_write(c)
        \/ add_time_entry_write(c)

SpecRace == InitProjects /\ [][NextRace]_vars

(* -------------------- SpecAppend: concurrent appends ------------------- *)

\* The three appends of one project by its owner, from two clients that may
\* both be between add_time_entry's two storage calls, while the clock runs.
\* Nothing is deleted or updated.
NextAppend ==
    \/ Tick
    \/ \E c \in Clients :
        \/ create_project(c, 1, "n1", "", "#4F46E5", None)
        \/ \E pid \in Pids :
            \/ create_task(c, 1, pid, "a")
            \/ create_milestone(c, 1, pid, "a", "2030-01-01")
            \/ \E id \in Eids :
                add_time_entry_find(c, 1, pid, id, 30, "2024-01-01")
        \/ add_time_entry_write(c)

SpecAppend == InitProjects /\ [][NextAppend]_vars

(* --------------------- SpecAuth: registration -------------------------- *)

\* the store before any registration
InitAuth ==
    /\ users = <<>>
    /\ nextUid = 1
    /\ projects = <<>>
    /\ nextPid = 1
    /\ nextEid = 1
    /\ now = 1
    /\ cl = [c \in Clients |-> Idle]
    /\ last = Response("", 0, 0, "", None)

\* register and login from two clients, with any email and password
NextAuth ==
    \E c \in Clients :
        \/ \E email \in Emails, password \in Passwords :
            \/ register_find(c, email, password)
            \/ login(c, email, password)
        \/ register_insert(c)

SpecAuth == InitAuth /\ [][NextAuth]_vars

(* ------------------- SpecFrame: the project's own fields --------------- *)

\* the bodies of update_project: every field absent or any value
ProjectUpdates ==
    {ProjectUpdate(n, d, col, dl, st) :
        n \in Option(Names), d \in Option(Descriptions),
        col \in Option(Colors), dl \in Option(Deadlines),
        st \in Option(ProjectStatusInputs)}

\* One account creates a project with or without a deadline, gives it tasks
\* and milestones, updates it with any body and deletes it, one request at a
\* time, while the clock runs.
NextFrame ==
    \/ Tick
    \/ \E deadline \in Option({"2030-01-01"}) :
            create_project("r1", 1, "n1", "", "#4F46E5", deadline)
    \/ \E pid \in Pids :
        \/ \E d \in ProjectUpdates : update_project("r1", 1, pid, d)
        \/ create_task("r1", 1, pid, "a")
        \/ create_milestone("r1", 1, pid, "a", "2030-01-01")
        \/ delete_project("r1", 1, pid)

SpecFrame == InitProjects /\ [][NextFrame]_vars

(* ------------------- SpecDeadline: upcoming deadlines ------------------ *)

\* the deadline strings clients send with a project: a date, a date-time
\* with offset that the clock reaches, and the empty string
DeadlineInputs == {"2099-01-01", "2025-01-01T02:00:00Z", ""}

\* the due_date strings clients send with a milestone: a date, two
\* date-times with different offsets, and a string that is no date
DueDateInputs ==
    {"2030-01-01", "2030-01-01T05:00:00+00:00", "2030-01-01T10:00:00+10:00",
     "soon"}

\* One account creates a project with any deadline or none, gives it
\* milestones with any due date, completes and reopens them and reads the
\* overview, one request at a time, while the clock runs.
NextDeadline ==
    \/ Tick
    \/ \E deadline \in Option(DeadlineInputs) :
            create_project("r1", 1, "n1", "", "#4F46E5", deadline)
    \/ \E pid \in Pids :
        \/ \E due_date \in DueDateInputs :
                create_milestone("r1", 1, pid, "a", due_date)
        \/ \E id \in Eids, completed \in BOOLEAN :
                update_milestone_find("r1", 1, pid, id, completed)
    \/ update_milestone_write("r1")
    \/ get_analytics_overview("r1", 1)

SpecDeadline == InitProjects /\ [][NextDeadline]_vars

(* ---------------------- SpecCounts: overview counts -------------------- *)

\* One account creates a project and tasks, sets their status to any string,
\* deletes them and reads the overview, one request at a time.
NextCounts ==
    \/ create_project("r1", 1, "n1", "", "#4F46E5", None)
    \/ \E pid \in Pids :
        \/ create_task("r1", 1, pid, "a")
        \/ \E id \in Eids :
            \/ \E d \in TaskUpdates : update_task_find("r1", 1, pid, id, d)
            \/ delete_task("r1", 1, pid, id)
    \/ update_task_write("r1")
    \/ get_analytics_overview("r1", 1)

SpecCounts == InitProjects /\ [][NextCounts]_vars

(* ----------------------- SpecDaily: daily buckets ---------------------- *)

\* the id of the task and of the k-th time entry of InitDaily: ids (uuid4
\* values) generated before the run
LoggedTask == 100
LoggedEntry(k) == 100 + k

\* the store after account 1 created a project with one task and logged 60
\* minutes on each of the n days 2024-01-01 .. 2024-01-n
StoreWithDays(n) ==
    1 :> [Project(1, "n1", "", "#4F46E5", None, 1) EXCEPT
            !.tasks =
                <<[Task(LoggedTask, "a") EXCEPT
                    !.time_entries =
                        [k \in 1..n |->
                            TimeEntry(LoggedEntry(k), 60, DayStrings[k + 1])]]>>]

\* the numbers of days logged before the run: none, and one less than and
\* as many as the daily list keeps
InitDaily ==
    /\ users = <<[id |-> 1, email |-> "a@x.io",
                  password |-> get_password_hash("pw1")],
                 [id |-> 2, email |-> "b@x.io",
                  password |-> get_password_hash("pw2")]>>
    /\ nextUid = 3
    /\ \E n \in {0, DailyCap - 1, DailyCap} : projects = StoreWithDays(n)
    /\ nextPid = 2
    /\ nextEid = 1
    /\ now = 1
    /\ cl = [c \in Clients |-> Idle]
    /\ last = Response("", 0, 0, "", None)

\* the dates clients send with a time entry: days later than every logged
\* day, a day earlier than every logged day, a date-time on a logged day,
\* and the empty string
EntryDateInputs ==
    {"2024-01-15", "2024-01-16", "2023-12-31", "2024-01-01T09:30:00", ""}

\* The owner logs 30 minutes on any date, deletes logged entries and reads
\* the time tracking analytics, one request at a time.
NextDaily ==
    \/ \E pid \in Pids :
        \/ \E date \in EntryDateInputs :
                add_time_entry_find("r1", 1, pid, LoggedTask, 30, date)
        \/ \E time_id \in Eids \cup {LoggedEntry(1), LoggedEntry(DailyCap)} :
                delete_time_entry_find("r1", 1, pid, LoggedTask, time_id)
    \/ add_time_entry_write("r1")
    \/ delete_time_entry_write("r1")
    \/ get_time_tracking_analytics("r1", 1)

SpecDaily == InitDaily /\ [][NextDaily]_vars

(* ------------- SpecCross: tasks side against milestones side ----------- *)

\* The tasks-side routes of one project from one client (slot r1) and the
\* milestones-side routes from another (slot r2), by the owner: a handler of
\* each side may be between its two storage calls at once, and the clock
\* runs.
NextCross ==
    \/ Tick
    \/ create_project("r1", 1, "n1", "", "#4F46E5", None)
    \/ \E pid \in Pids :
        \/ create_task("r1", 1, pid, "a")
        \/ create_milestone("r2", 1, pid, "a", "2030-01-01")
        \/ \E id \in Eids :
            \/ delete_task("r1", 1, pid, id)
            \/ update_task_find("r1", 1, pid, id, TaskUpdate(Some("b"), None))
            \/ add_time_entry_find("r1", 1, pid, id, 30, "2024-01-01")
            \/ \E time_id \in Eids :
                delete_time_entry_find("r1", 1, pid, id, time_id)
            \/ delete_milestone("r2", 1, pid, id)
            \/ \E completed \in BOOLEAN :
                update_milestone_find("r2", 1, pid, id, completed)
    \/ update_task_write("r1")
    \/ add_time_entry_write("r1")
    \/ delete_time_entry_write("r1")
    \/ update_milestone_write("r2")

SpecCross == InitProjects /\ [][NextCross]_vars

(* ------------------------------- claims -------------------------------- *)

\* a step that sends a response: every step but a tick of the clock and a
\* handler's first storage call that leaves it waiting for its second
Responded ==
    /\ now' = now
    /\ \A c \in Clients : ~(cl[c].pc = "idle" /\ cl'[c].pc = "write")

\* the routes that take a project id
ProjectRoutes ==
    {"get_project", "update_project", "delete_project", "create_task",
     "update_task", "delete_task", "add_time_entry", "delete_time_entry",
     "create_milestone", "update_milestone", "delete_milestone"}

\* project pid is stored and belongs to another account than u
Foreign(u, pid) == pid \in DOMAIN projects /\ projects[pid].owner_id # u

\* C1: a request on a project route with the id of a stored project of
\* another account is answered "Project not found", as is one with an id no
\* project ever had, and no stored document changes; the list of projects and
\* the overview returned to an account are those of its own documents alone.
C1_OwnershipIsolation ==
    [][Responded =>
        /\ (/\ last'.op \in ProjectRoutes
            /\ (Foreign(last'.user, last'.pid) \/ last'.pid >= nextPid))
           => (last'.resp = ProjectNotFound /\ projects' = projects)
        /\ last'.op = "get_projects"
           => \A pid \in DOMAIN projects :
                pid \in last'.ret[1] <=> projects[pid].owner_id = last'.user
        /\ last'.op = "get_analytics_overview"
           => last'.ret[1] =
                Overview({pid \in DOMAIN projects :
                            ~Foreign(last'.user, pid)})]_vars

\* C1 witness: account 2 was answered "Project not found" for update_task on
\* a stored project of account 1 that holds a task
C1_Witness ==
    /\ last.op = "update_task" /\ last.user = 2
    /\ last.resp = ProjectNotFound
    /\ last.pid \in DOMAIN projects
    /\ projects[last.pid].owner_id = 1
    /\ projects[last.pid].tasks # <<>>

\* the completed_at of the task update_task returns (merged), from the task
\* it read (prior), the body d and the time t
DerivedRule(prior, d, merged, t) ==
    /\ (d.status = Some("done") /\ prior.status # "done")
        => merged.completed_at = Some(t)
    /\ (d.status # None /\ d.status # Some("done"))
        => merged.completed_at = None
    /\ ((d.status = Some("done") /\ prior.status = "done") \/ d.status = None)
        => merged.completed_at = prior.completed_at

\* C2: for every stored task and every body, update_task's task has
\* completed_at = now when the body's status is "done" and the task's was
\* not, None when the body's status is any other string, and the task's own
\* completed_at when the body's status is "done" again or absent.
C2_DerivedField ==
    [][\A c \in Clients, pid \in Pids, id \in Eids, d \in TaskUpdates :
        (update_task_find(c, 1, pid, id, d) /\ cl'[c].pc = "write")
        => DerivedRule(projects[pid].tasks[IndexOf(projects[pid].tasks, id)],
                       d, cl'[c].ret[1], now)]_vars

\* C3: every stored task has a completed_at exactly when its status is "done"
C3_CompletedIffDone ==
    \A pid \in DOMAIN projects : \A i \in 1..Len(projects[pid].tasks) :
        LET t == projects[pid].tasks[i]
        IN  t.completed_at # None <=> t.status = "done"

\* the ids of the tasks, time entries and milestones of a document, and of
\* a store
ElementIds(doc) ==
    {doc.tasks[i].id : i \in 1..Len(doc.tasks)}
    \cup {doc.milestones[i].id : i \in 1..Len(doc.milestones)}
    \cup UNION {{doc.tasks[i].time_entries[j].id :
                    j \in 1..Len(doc.tasks[i].time_entries)} :
                 i \in 1..Len(doc.tasks)}

IdsOf(store) == UNION {ElementIds(store[pid]) : pid \in DOMAIN store}

AllIdle == \A c \in Clients : Free(c)

C5_AppendAtomic ==
    AllIdle => IdsOf(projects) = 1..(nextEid - 1)

\* the fields update_project sets
TopFields(doc) ==
    <<doc.name, doc.description, doc.color, doc.deadline, doc.status>>

\* C6: whatever is between its storage calls, the name, description, color,
\* deadline and status of a stored project change only in a step of
\* update_project, and after that step the name is the body's; so no nested
\* mutation overwrites or reverts them.
C6_TopLevelRaceFree ==
    [][\A pid \in DOMAIN projects \cap DOMAIN projects' :
        /\ TopFields(projects'[pid]) # TopFields(projects[pid])
            => \E c \in Clients : update_project(c, 1, pid, Rename)
        /\ (\E c \in Clients : update_project(c, 1, pid, Rename))
            => TopFields(projects'[pid]) =
                 <<"n2", projects[pid].description, projects[pid].color,
                   projects[pid].deadline, projects[pid].status>>]_vars

\* C6 witness: update_project has renamed the project after a nested mutation
\* read it and before that mutation writes its list back
C6_Witness ==
    /\ cl["r1"].pc = "write"
    /\ cl["r1"].pid \in DOMAIN projects
    /\ cl["r1"].at < projects[cl["r1"].pid].updated_at
    /\ last.op = "update_project" /\ last.resp = OK
    /\ projects[cl["r1"].pid].name = "n2"

\* C7: no two stored users have the same email
C7_EmailUnique ==
    \A i, j \in 1..Len(users) : users[i].email = users[j].email => i = j

\* C8: delete_task and delete_milestone on a project the caller owns answer
\* success, leave the list without the id, and leave it as it was when the id
\* was not in it; on a project that is not stored or not the caller's they
\* answer "Project not found" and change nothing.
C8_IdempotentRemoval ==
    [][\A u \in Accounts, pid \in Pids, id \in Eids :
        /\ delete_task("r1", u, pid, id) =>
            IF pid \in DOMAIN projects /\ projects[pid].owner_id = u
            THEN /\ last'.resp = OK
                 /\ IndexOf(projects'[pid].tasks, id) = 0
                 /\ IndexOf(projects[pid].tasks, id) = 0
                    => projects'[pid].tasks = projects[pid].tasks
            ELSE last'.resp = ProjectNotFound /\ projects' = projects
        /\ delete_milestone("r1", u, pid, id) =>
            IF pid \in DOMAIN projects /\ projects[pid].owner_id = u
            THEN /\ last'.resp = OK
                 /\ IndexOf(projects'[pid].milestones, id) = 0
                 /\ IndexOf(projects[pid].milestones, id) = 0
                    => projects'[pid].milestones = projects[pid].milestones
            ELSE last'.resp = ProjectNotFound /\ projects' = projects]_vars

\* C8 witness: delete_milestone answered success on a project whose
\* milestones are every element ever made, so the id it named was not stored
C8_Witness ==
    /\ last.op = "delete_milestone" /\ last.resp = OK
    /\ nextEid > 1
    /\ last.pid \in DOMAIN projects
    /\ Len(projects[last.pid].milestones) = nextEid - 1

\* the document update_project leaves (new) from the one it found (old), the
\* body d and the time t
Frame(old, d, new, t) ==
    /\ new.name = (IF d.name = None THEN old.name ELSE d.name[1])
    /\ new.description =
            (IF d.description = None THEN old.description ELSE d.description[1])
    /\ new.color = (IF d.color = None THEN old.color ELSE d.color[1])
    /\ new.deadline = (IF d.deadline = None THEN old.deadline ELSE d.deadline)
    /\ new.status = (IF d.status = None THEN old.status ELSE d.status[1])
    /\ new.updated_at = t
    /\ new.owner_id = old.owner_id
    /\ new.created_at = old.created_at
    /\ new.tasks = old.tasks
    /\ new.milestones = old.milestones

\* C9: update_project on an owned project sets the fields its body gives,
\* and updated_at; the fields the body leaves out keep their values, and
\* the project keeps its id, owner_id, created_at, tasks and milestones.
C9_UpdateProjectFrame ==
    [][\A pid \in DOMAIN projects, d \in ProjectUpdates :
        update_project("r1", 1, pid, d)
        => /\ DOMAIN projects' = DOMAIN projects
           /\ Frame(projects[pid], d, projects'[pid], now)]_vars

\* C9 witness: update_project answered success on a project with a task and
\* a milestone; the status is the body's, the name and deadline are still
\* those of the project's creation
C9_Witness ==
    /\ last.op = "update_project" /\ last.resp = OK
    /\ last.pid \in DOMAIN projects
    /\ projects[last.pid].tasks # <<>>
    /\ projects[last.pid].milestones # <<>>
    /\ projects[last.pid].status = "completed"
    /\ projects[last.pid].name = "n1"
    /\ projects[last.pid].deadline = Some("2030-01-01")
    /\ projects[last.pid].created_at < projects[last.pid].updated_at

\* the routes that change a project or what it holds
Mutations ==
    {"update_project", "create_task", "update_task", "delete_task",
     "add_time_entry", "delete_time_entry", "create_milestone",
     "update_milestone", "delete_milestone"}

\* the time the answering handler took for updated_at: on its second storage
\* call the one it took before the call, else the time of the step
RequestTime ==
    IF \E c \in Clients : cl[c].pc = "write" /\ cl'[c].pc = "idle"
    THEN cl[CHOOSE c \in Clients :
                cl[c].pc = "write" /\ cl'[c].pc = "idle"].at
    ELSE now

\* C10: when a mutation answers success and its project is stored, the
\* project's updated_at is the time that request took, and is not earlier
\* than its created_at.
C10_UpdatedAt ==
    [][(/\ Responded
        /\ last'.op \in Mutations /\ last'.resp = OK
        /\ last'.pid \in DOMAIN projects')
       => /\ projects'[last'.pid].updated_at = RequestTime
          /\ projects'[last'.pid].updated_at
                >= projects'[last'.pid].created_at]_vars

\* C10 witness: update_milestone answered success after the clock moved, and
\* the project's updated_at is later than its created_at
C10_Witness ==
    /\ last.op = "update_milestone" /\ last.resp = OK
    /\ last.pid \in DOMAIN projects
    /\ projects[last.pid].created_at < projects[last.pid].updated_at

\* a date string denotes an instant after t: it parses, with or without an
\* offset
ValidAfter(s, t) == fromisoformat(s).valid /\ fromisoformat(s).instant > t

\* C11: the upcoming list of the overview holds an item for a project of
\* the caller exactly when the project's deadline is a valid date or
\* date-time after now, and for every due date as many milestone items as
\* the project has incomplete milestones with that due date, when it is
\* valid and after now.
C11_UpcomingMembership ==
    [][get_analytics_overview("r1", 1) =>
        LET l == last'.ret[1].upcoming_deadlines IN
        \A pid \in OwnedProjects(1) :
            /\ (\E i \in 1..Len(l) :
                    l[i].type = "project" /\ l[i].project_id = pid)
               <=> (/\ projects[pid].deadline # None
                    /\ ValidAfter(projects[pid].deadline[1], now))
            /\ \A d \in DueDateInputs :
                Cardinality({i \in 1..Len(l) :
                    /\ l[i].type = "milestone" /\ l[i].project_id = pid
                    /\ l[i].deadline = d})
                = Cardinality({j \in 1..Len(projects[pid].milestones) :
                    /\ ~projects[pid].milestones[j].completed
                    /\ projects[pid].milestones[j].due_date = d
                    /\ ValidAfter(d, now)})]_vars

\* C12: the upcoming list of the overview has at most 5 items, ascending by
\* deadline string and by the instant the string denotes, and every
\* collected deadline that is earlier than a returned one is returned.
C12_UpcomingOrder ==
    [][get_analytics_overview("r1", 1) =>
        LET l == last'.ret[1].upcoming_deadlines
            all == CollectDeadlines(OwnedProjects(1), now)
        IN  /\ Len(l) <= 5
            /\ \A i, j \in 1..Len(l) :
                i < j => /\ StrRank(l[i].deadline) <= StrRank(l[j].deadline)
                         /\ fromisoformat(l[i].deadline).instant
                                <= fromisoformat(l[j].deadline).instant
            /\ \A k \in 1..Len(all), i \in 1..Len(l) :
                fromisoformat(all[k].deadline).instant
                    < fromisoformat(l[i].deadline).instant
                => \E j \in 1..Len(l) : l[j] = all[k]]_vars

\* the stored tasks of account u, each as <<project id, index>>
TasksOf(u) ==
    {<<pid, i>> \in Pids \X (1..MaxElems) :
        /\ pid \in DOMAIN projects /\ projects[pid].owner_id = u
        /\ i <= Len(projects[pid].tasks)}

\* C13: in the overview of an account, total_tasks is the number of its
\* stored tasks, completed_tasks and in_progress_tasks the numbers of those
\* with status "done" and "in_progress", todo_tasks the rest, the three
\* counts are non-negative, and task_completion_rate is 0 without tasks and
\* 100.0 when every task is done.
C13_TaskCounts ==
    [][get_analytics_overview("r1", 1) =>
        LET o == last'.ret[1]
            done == {x \in TasksOf(1) :
                        projects[x[1]].tasks[x[2]].status = "done"}
            doing == {x \in TasksOf(1) :
                        projects[x[1]].tasks[x[2]].status = "in_progress"}
        IN  /\ o.total_tasks = Cardinality(TasksOf(1))
            /\ o.completed_tasks = Cardinality(done)
            /\ o.in_progress_tasks = Cardinality(doing)
            /\ o.todo_tasks = Cardinality(TasksOf(1) \ (done \cup doing))
            /\ o.todo_tasks >= 0
            /\ o.completed_tasks + o.in_progress_tasks + o.todo_tasks
                    = o.total_tasks
            /\ TasksOf(1) = {} => o.task_completion_rate = 0
            /\ (TasksOf(1) # {} /\ done = TasksOf(1))
                    => o.task_completion_rate = 1000]_vars

\* C13 witness: the overview of one project with one task set to done:
\* total_tasks = 1, completed_tasks = 1, task_completion_rate = 100.0
C13_Witness ==
    /\ last.op = "get_analytics_overview" /\ last.resp = OK
    /\ last.ret[1].total_projects = 1
    /\ last.ret[1].total_tasks = 1
    /\ last.ret[1].completed_tasks = 1
    /\ last.ret[1].task_completion_rate = 1000

\* the stored time entries of account u, each as <<project id, task index,
\* entry index>>
EntriesOf(u) ==
    {x \in Pids \X (1..MaxElems) \X (1..(DailyCap + MaxElems)) :
        /\ x[1] \in DOMAIN projects /\ projects[x[1]].owner_id = u
        /\ x[2] <= Len(projects[x[1]].tasks)
        /\ x[3] <= Len(projects[x[1]].tasks[x[2]].time_entries)}

EntryAt(x) == projects[x[1]].tasks[x[2]].time_entries[x[3]]

\* the days on which account u has entries
DaysOf(u) == {DatePrefix(EntryAt(x).date) : x \in EntriesOf(u)} \ {""}

\* the minutes account u logged on a day
MinutesOn(u, day) ==
    LET E == {x \in EntriesOf(u) : DatePrefix(EntryAt(x).date) = day}
    IN  SumOver(E, [x \in E |-> EntryAt(x).duration_minutes])

MilestonesConsistent ==
    \A pid \in DOMAIN projects : \A i \in 1..Len(projects[pid].milestones) :
        LET m == projects[pid].milestones[i]
        IN  m.completed_at # None <=> m.completed

\* C15: the milestone update_milestone returns has the supplied completed,
\* and completed_at = now when it is true and None when it is false,
\* whatever the milestone was; its second storage call stores that
\* milestone; and every stored milestone has a completed_at exactly when it
\* is completed.
C15_MilestoneCompletion ==
    /\ []MilestonesConsistent
    /\ [][/\ \A pid \in Pids, id \in Eids, completed \in BOOLEAN :
            (update_milestone_find("r1", 1, pid, id, completed)
                /\ cl'["r1"].pc = "write")
            => /\ cl'["r1"].ret[1].id = id
               /\ cl'["r1"].ret[1].completed = completed
               /\ cl'["r1"].ret[1].completed_at =
                    (IF completed THEN Some(now) ELSE None)
          /\ (update_milestone_write("r1")
                /\ cl["r1"].pid \in DOMAIN projects)
            => \E i \in 1..Len(projects'[cl["r1"].pid].milestones) :
                projects'[cl["r1"].pid].milestones[i] = cl["r1"].ret[1]]_vars

\* C15 witness: update_milestone with completed = true is about to store a
\* new completed_at for a milestone that is stored as completed earlier
C15_Witness ==
    /\ cl["r1"].pc = "write" /\ cl["r1"].op = "update_milestone"
    /\ cl["r1"].ret[1].completed
    /\ cl["r1"].ret[1].completed_at = Some(2)
    /\ cl["r1"].pid \in DOMAIN projects
    /\ \E i \in 1..Len(projects[cl["r1"].pid].milestones) :
        LET m == projects[cl["r1"].pid].milestones[i]
        IN  /\ m.id = cl["r1"].ret[1].id
            /\ m.completed /\ m.completed_at = Some(1)

\* the answers of a route that did not find what its path names
NotFounds == {ProjectNotFound, TaskNotFound, MilestoneNotFound}

\* the answer of a route that looks up element id in list seq of project
\* pid for account u: the project's absence first, then the element's
LookupAnswer(u, pid, seq, id, ElementNotFound) ==
    IF ~(pid \in DOMAIN projects /\ projects[pid].owner_id = u)
    THEN last'.resp = ProjectNotFound /\ cl'["r1"].pc = "idle"
    ELSE IF \A i \in 1..Len(seq) : seq[i].id # id
         THEN last'.resp = ElementNotFound /\ cl'["r1"].pc = "idle"
         ELSE cl'["r1"].pc = "write"

\* C16: a step that answers "Project not found", "Task not found" or
\* "Milestone not found" changes no stored document; update_task,
\* add_time_entry and delete_time_entry answer "Project not found" when the
\* project is not stored for the caller and "Task not found" when it is and
\* the task id is not in its tasks, update_milestone likewise with
\* "Milestone not found"; and the three answers differ.
C16_NotFoundUnchanged ==
    [][/\ (Responded /\ last'.resp \in NotFounds) => projects' = projects
       /\ \A pid \in Pids, id \in Eids :
           LET tasks == IF pid \in DOMAIN projects
                        THEN projects[pid].tasks ELSE <<>>
               milestones == IF pid \in DOMAIN projects
                             THEN projects[pid].milestones ELSE <<>>
           IN
           /\ update_task_find("r1", 1, pid, id, TaskUpdate(Some("b"), None))
              => LookupAnswer(1, pid, tasks, id, TaskNotFound)
           /\ add_time_entry_find("r1", 1, pid, id, 30, "2024-01-01")
              => LookupAnswer(1, pid, tasks, id, TaskNotFound)
           /\ (\E time_id \in Eids :
                    delete_time_entry_find("r1", 1, pid, id, time_id))
              => LookupAnswer(1, pid, tasks, id, TaskNotFound)
           /\ (\E completed \in BOOLEAN :
                    update_milestone_find("r1", 1, pid, id, completed))
              => LookupAnswer(1, pid, milestones, id, MilestoneNotFound)
       /\ Cardinality(NotFounds) = 3]_vars

\* C16 witness: update_task was answered "Task not found" on a stored
\* project that holds a task and was last changed before the request
C16_Witness ==
    /\ last.op = "update_task" /\ last.resp = TaskNotFound
    /\ last.pid \in DOMAIN projects
    /\ projects[last.pid].tasks # <<>>
    /\ projects[last.pid].updated_at < now
    /\ AllIdle

\* no two elements of a list have the same id
UniqueIds(seq) ==
    \A i, j \in 1..Len(seq) : seq[i].id = seq[j].id => i = j

\* C17: in every project no two tasks have the same id and no two
\* milestones have the same id, and in every task no two time entries have
\* the same id.
C17_IdsUnique ==
    \A pid \in DOMAIN projects :
        /\ UniqueIds(projects[pid].tasks)
        /\ UniqueIds(projects[pid].milestones)
        /\ \A i \in 1..Len(projects[pid].tasks) :
                UniqueIds(projects[pid].tasks[i].time_entries)

\* C17 witness: a handler's write-back has just stored a tasks list with
\* two tasks, one of them with a time entry
C17_Witness ==
    /\ last.op \in {"update_task", "add_time_entry", "delete_time_entry"}
    /\ last.resp = OK
    /\ last.pid \in DOMAIN projects
    /\ Len(projects[last.pid].tasks) = 2
    /\ \E i \in 1..2 : projects[last.pid].tasks[i].time_entries # <<>>

\* C18: every stored project has a status of active, completed, on_hold
\* and every stored task a status of todo, in_progress, done.
C18_StatusDomains ==
    \A pid \in DOMAIN projects :
        /\ projects[pid].status \in {"active", "completed", "on_hold"}
        /\ \A i \in 1..Len(projects[pid].tasks) :
            projects[pid].tasks[i].status \in {"todo", "in_progress", "done"}

\* project pid was created and is no longer stored: it was deleted
Deleted(pid) == pid < nextPid /\ pid \notin DOMAIN projects

\* C19: a project is not stored after delete_project answered success for
\* it, a deleted project is never stored again (so neither are its tasks,
\* milestones and time entries, which are stored nowhere else), whatever
\* handler writes back after the deletion, and get_project on it is
\* answered "Project not found".
C19_ProjectDeleteFinal ==
    [][/\ \A pid \in Pids : Deleted(pid) => pid \notin DOMAIN projects'
       /\ (Responded /\ last'.op = "delete_project" /\ last'.resp = OK)
            => last'.pid \notin DOMAIN projects'
       /\ (Responded /\ last'.op = "get_project" /\ Deleted(last'.pid))
            => last'.resp = ProjectNotFound]_vars

\* C19 witness: a handler that read the project before its deletion has
\* made its second storage call after it and answered success
C19_Witness ==
    /\ last.op \in {"update_task", "add_time_entry", "delete_time_entry",
                    "update_milestone"}
    /\ last.resp = OK
    /\ Deleted(last.pid)

\* the ids of the tasks of a document
TaskIds(doc) == {doc.tasks[i].id : i \in 1..Len(doc.tasks)}

\* C20: after delete_task answered success on a project, and until the
\* next answer, no step puts into the project's tasks an id that was
\* generated earlier and is not in them: the deleted task does not come
\* back.
C20_TaskDeleteFinal ==
    [][(/\ last.op = "delete_task" /\ last.resp = OK
        /\ last.pid \in DOMAIN projects /\ last.pid \in DOMAIN projects')
       => \A id \in 1..(nextEid - 1) :
            id \notin TaskIds(projects[last.pid])
            => id \notin TaskIds(projects'[last.pid])]_vars

\* the routes with two storage calls: a read, then a write-back
WriteBackRoutes ==
    {"update_task", "add_time_entry", "delete_time_entry", "update_milestone"}

\* C21: when update_task, add_time_entry, delete_time_entry or
\* update_milestone answers success, the project it wrote to is stored and
\* is the caller's: the write-back was applied to a document.
C21_SuccessPersists ==
    [][(Responded /\ last'.op \in WriteBackRoutes /\ last'.resp = OK)
       => /\ last'.pid \in DOMAIN projects'
          /\ projects'[last'.pid].owner_id = last'.user]_vars

\* the routes that change the tasks of a project, and those that change
\* its milestones
TasksSide ==
    {"create_task", "update_task", "delete_task", "add_time_entry",
     "delete_time_entry"}

MilestonesSide == {"create_milestone", "update_milestone", "delete_milestone"}

\* C22: whatever handler of the other side is between its storage calls, a
\* step that answers a tasks-side route leaves the milestones of every
\* project as they were, a step that answers a milestones-side route leaves
\* the tasks as they were, and the lists change in no other step; so an
\* effect of one side is never undone by the other.
C22_NoInterference ==
    [][\A pid \in DOMAIN projects \cap DOMAIN projects' :
        /\ (Responded /\ last'.op \in TasksSide)
            => projects'[pid].milestones = projects[pid].milestones
        /\ (Responded /\ last'.op \in MilestonesSide)
            => projects'[pid].tasks = projects[pid].tasks
        /\ projects'[pid].tasks # projects[pid].tasks
            => Responded /\ last'.op \in TasksSide
        /\ projects'[pid].milestones # projects[pid].milestones
            => Responded /\ last'.op \in MilestonesSide]_vars

\* C22 witness: update_task read the project, then update_milestone read
\* it, completed the milestone and wrote, then update_task wrote its list
\* back: the stored project has the new title and the completed milestone
C22_Witness ==
    /\ last.op = "update_task" /\ last.resp = OK
    /\ last.pid \in DOMAIN projects
    /\ \E i \in 1..Len(projects[last.pid].tasks) :
            projects[last.pid].tasks[i].title = "b"
    /\ \E i \in 1..Len(projects[last.pid].milestones) :
        LET m == projects[last.pid].milestones[i] IN
            /\ m.completed
            /\ m.completed_at # None
            /\ m.completed_at[1] > projects[last.pid].updated_at

====
